---- MODULE Spec2Model ----
(***************************************************************************)
(* Orion Assistant: the intent-dispatch and session-state engine of App    *)
(* (handleRun, the meeting listener, toggleMeetingListener,                *)
(* playGlobalAudio) and the planner / collaborator calls of                *)
(* services/gemini.ts.                                                     *)
(*                                                                         *)
(* Execution model.  JavaScript runs one task to completion; a handler is  *)
(* suspended only at an await.  Every action below is therefore one        *)
(* synchronous stretch of code between two suspension points.  React       *)
(* state setters called in one stretch are batched and committed together, *)
(* and the component is rendered (and its effects run) before the next     *)
(* event is handled, so the state variables are the committed React state. *)
(* A closure created by a render (handleRun) reads the state values of     *)
(* that render: a run keeps the meeting and notes it was submitted with.   *)
(* Date.now() ids and timestamps of a HistoryItem are left out, and so is   *)
(* the input box: a submission carries the text the box holds.             *)
(***************************************************************************)
EXTENDS Naturals, Sequences, FiniteSets, TLC

\* ------------------------------------------------------------------ bounds

\* accepted runs per behaviour of the dispatch specification
MaxRuns == 2
\* the meeting stream appends to a log shorter than this in the dispatch specification
MaxDispatchLog == 1
\* accepted runs per behaviour of the pipeline specification
MaxPipelineRuns == 2
\* accepted runs per behaviour of the meeting specification
MaxMeetingRuns == 3
\* accepted runs per behaviour of the notes specification
MaxNotesRuns == 4
\* the meeting stream appends to a log shorter than this in the meeting specification
MaxLog == 2
\* alert() calls per behaviour
MaxAlerts == 1
\* voice-input recognition instances created per behaviour
MaxVoiceInstances == 3
\* accepted runs in the voice-input specification
MaxVoiceRuns == 1
\* accepted runs in the playback specification
MaxPlaybackRuns == 2
\* accepted runs in the avatar specification
MaxAvatarRuns == 2
\* buffer sources a NewsPlayer starts per behaviour
MaxNewsSources == 3

\* ------------------------------------------------------------ plain values

\* an absent (undefined) optional field
None == "<undefined>"

\* JavaScript truthiness of an optional string: neither undefined nor ''
Truthy(s) == s # None /\ s # ""

\* a || b on optional strings
OrElse(a, b) == IF Truthy(a) THEN a ELSE b

\* String.prototype.trim on the strings the model feeds it
Trim(s) ==
  CASE s = "  " -> ""
    [] s = " hi " -> "hi"
    [] s = " t1 " -> "t1"
    [] OTHER -> s

\* String.prototype.toLowerCase on the topics the model uses
ToLowerCase(s) ==
  CASE s = "Work" -> "work"
    [] s = "ALL" -> "all"
    [] OTHER -> s

\* the texts the input box can hold when the form is submitted
Queries == {"", "  ", "hi"}

\* ------------------------------------------------------------- planner data

AgentTypes ==
  {"code", "papers", "notes_add", "notes_read", "notes_clear", "meeting",
   "news", "translate", "unknown"}

\* a PlannerOutput: { agent, info: {topic, content, meetingAction, language}, reasoning }
Plan(a, t, c, m, l, r) ==
  [agent |-> a, topic |-> t, content |-> c, meetingAction |-> m,
   language |-> l, reasoning |-> r]

\* the null of currentPlannerData: no planner output, so no agent
NoPlannerData == Plan(None, None, None, None, None, None)

\* the placeholder plannerOutput of a new HistoryItem: { agent: 'unknown', info: {} }
PlaceholderPlan == Plan("unknown", None, None, None, None, None)

\* the value planRequest returns from its catch block
FallbackPlan ==
  Plan("unknown", None, None, None, None, "Planning failed due to API error.")

\* ------------------------------------------------------------------ results

\* a handler result: a string (msg, with the template's argument), a list,
\* null, a NewsResult, or the value an object inherits under the name a
Str(m, a) == [tag |-> "text", msg |-> m, arg |-> a, list |-> <<>>]
List(l) == [tag |-> "list", msg |-> "", arg |-> "", list |-> l]
Null == [tag |-> "null", msg |-> "", arg |-> "", list |-> <<>>]
News(audio) == [tag |-> "news", msg |-> "", arg |-> audio, list |-> <<>>]
Inherited(a) == [tag |-> "inherited", msg |-> "", arg |-> a, list |-> <<>>]

\* textToSpeak: a string (template and argument); '' is falsy and suppresses speech
Say(m, a) == [msg |-> m, arg |-> a]
NoText == Say("", "")

\* --------------------------------------------------------------- NoteStore

\* NoteStore is a JavaScript object: its keys keep insertion order, so it is a
\* sequence of [topic, items] entries with distinct topics.
NoteIndex(n, t) ==
  IF \E i \in 1..Len(n) : n[i].topic = t
    THEN CHOOSE i \in 1..Len(n) : n[i].topic = t
    ELSE 0

\* the lower-case property names every JavaScript object inherits from
\* Object.prototype: notes[name] is truthy for them without an own entry
PrototypeKeys == {"constructor", "__proto__"}

\* notes[t] is an inherited value (a function or an object), not a note sequence
HasInherited(n, t) == NoteIndex(n, t) = 0 /\ t \in PrototypeKeys

\* prev[topic] || [] for a topic with an own entry or without any value
NotesGet(n, t) == IF NoteIndex(n, t) = 0 THEN <<>> ELSE n[NoteIndex(n, t)].items

\* { ...prev, [topic]: items }: an existing key keeps its place, a new key goes last
NotesPut(n, t, items) ==
  IF NoteIndex(n, t) = 0
    THEN Append(n, [topic |-> t, items |-> items])
    ELSE [n EXCEPT ![NoteIndex(n, t)].items = items]

\* const next = { ...prev }; delete next[topic]
NotesDelete(n, t) == SelectSeq(n, LAMBDA e : e.topic # t)

RECURSIVE Flat(_)
\* Object.values(notes).flat()
Flat(n) == IF n = <<>> THEN <<>> ELSE Head(n).items \o Flat(Tail(n))

\* ----------------------------------------------------------------- state

VARIABLES
  apiKey,             \* process.env.API_KEY is set (fixed for the process)
  srSupported,        \* window.SpeechRecognition exists (fixed for the browser)
  history,            \* useState history
  notes,              \* useState notes
  meeting,            \* useState meeting
  loading,            \* useState loading
  loadingPhase,       \* useState loadingPhase
  currentPlannerData, \* useState currentPlannerData (NoPlannerData is null)
  currentAnalyser,    \* useState currentAnalyser: the playing source's id, 0 is null
  runs,               \* handleRun invocations suspended at an await
  synth,              \* ids of the runs whose generateSpeech promise is pending
  playing,            \* ids of the audio sources started and not yet ended
  meetingRec,         \* the instance meetingRecognitionRef holds: none | running | ended
  draining,           \* a stopped meeting recognition instance may still deliver a result
  alerts,             \* alert() calls so far
  accepted,           \* handleRun invocations that passed the guard so far
  lastCall,           \* the latest handleRun invocation: its query, whether it returned
                      \* at the guard, and a tick that flips at every invocation
  trace,              \* the events of the run accepted last, in program order
  thrown,             \* execError.message of the run accepted last: the message its
                      \* collaborator call threw, None while nothing was thrown
  mounted,            \* App is mounted: no render of it has thrown
  lastPlan,           \* what planRequest returned last (the placeholder before that)
  isListeningInput,   \* useState isListeningInput
  inputRecognitionRef, \* the voice-input instance inputRecognitionRef holds, 0 is null
  voiceRec,           \* the voice-input instances created so far, each
                      \* starting | running | ending | ended
  isPlaying,          \* NewsPlayer: useState isPlaying
  sourceRef,          \* NewsPlayer: the source sourceRef holds, 0 is null
  analyser,           \* NewsPlayer: useState analyser, the source it belongs to, 0 is null
  error,              \* NewsPlayer: useState error (None is null)
  newsSources,        \* NewsPlayer: the buffer sources started so far, each
                      \* playing | stopped | ended
  frame,              \* the analyser of the avatar's pending animation frame, 0 is none
  sampled             \* the analyser a frame callback of the avatar sampled last,
                      \* 0 once the mouth's height is reset

vars ==
  <<apiKey, srSupported, history, notes, meeting, loading, loadingPhase,
    currentPlannerData, currentAnalyser, runs, synth, playing, meetingRec,
    draining, alerts, accepted, lastCall, trace, thrown, mounted, lastPlan,
    isListeningInput, inputRecognitionRef, voiceRec, frame, sampled,
    isPlaying, sourceRef, analyser, error, newsSources>>

\* the React state and the ref of the NewsPlayer of a news result with audio
newsState == <<isPlaying, sourceRef, analyser, error>>

\* the initial MeetingSession, and the value the stop handler resets to
InactiveMeeting == [active |-> FALSE, topic |-> "", log |-> <<>>, listening |-> FALSE]

Init ==
  /\ apiKey \in BOOLEAN
  /\ srSupported \in BOOLEAN
  /\ history = <<>>
  /\ notes = <<>>
  /\ meeting = InactiveMeeting
  /\ loading = FALSE
  /\ loadingPhase = "idle"
  /\ currentPlannerData = NoPlannerData
  /\ currentAnalyser = 0
  /\ runs = <<>>
  /\ synth = {}
  /\ playing = {}
  /\ meetingRec = "none"
  /\ draining = FALSE
  /\ alerts = 0
  /\ accepted = 0
  /\ lastCall = [tick |-> 0, query |-> None, ignored |-> FALSE]
  /\ trace = <<>>
  /\ thrown = None
  /\ mounted = TRUE
  /\ lastPlan = PlaceholderPlan
  /\ isListeningInput = FALSE
  /\ inputRecognitionRef = 0
  /\ voiceRec = <<>>
  /\ frame = 0
  /\ sampled = 0
  /\ isPlaying = FALSE
  /\ sourceRef = 0
  /\ analyser = 0
  /\ error = None
  /\ newsSources = <<>>

\* --------------------------------------------------------- planner client

\* what the backend does with one generateContent call of planRequest
BackendOutcomes(P) ==
  {[kind |-> "json", plan |-> p] : p \in P}
    \cup {[kind |-> k, plan |-> PlaceholderPlan] : k \in {"transport", "empty", "badjson"}}

\* getAiClient: throws when the API key is missing
getAiClientThrows(key) == ~key

\* planRequest: the settled value of its promise.  getAiClient() is called
\* before the try block, so its throw rejects the promise; a transport error,
\* an empty text and a JSON.parse error are caught and yield the fallback.
planRequest(key, o) ==
  IF getAiClientThrows(key)
    THEN [threw |-> TRUE, value |-> PlaceholderPlan]
    ELSE IF o.kind = "json"
      THEN [threw |-> FALSE, value |-> o.plan]
      ELSE [threw |-> FALSE, value |-> FallbackPlan]

\* ----------------------------------------------------------- collaborators

NoCall == [fn |-> "none", a1 |-> "", a2 |-> "", log |-> <<>>]
Call(f, x, y, l) == [fn |-> f, a1 |-> x, a2 |-> y, log |-> l]

Returned(v) == [threw |-> FALSE, message |-> "", value |-> v]
Thrown(m) == [threw |-> TRUE, message |-> m, value |-> Null]

\* the ways a collaborator call of a handler can settle: the values it can
\* return (its own fallback string included) or an Error with a message
CollabOutcomes(fn) ==
  (CASE fn = "generateCode" -> {Returned(Str("<code>", ""))}
     [] fn = "searchArxiv" -> {Returned(List(<<>>)), Returned(List(<<"paper1">>))}
     [] fn = "generateNews" -> {Returned(News("audio")), Returned(News(None))}
     [] fn = "translateText" ->
          {Returned(Str("bonjour", "")), Returned(Str("Translation failed.", ""))}
     [] fn = "summarizeMeetingLog" ->
          {Returned(Str("<summary>", "")), Returned(Str("Could not generate summary.", ""))}
     [] OTHER -> {})
    \cup {Thrown("Failed to fetch"), Thrown("")}

\* ---------------------------------------------------------------- handlers

\* what a handler has done when it reaches its await or its break: the
\* session state after its setNotes / setMeeting calls, result, status,
\* textToSpeak, the collaborator call it awaits and the events in order
Out(n, m, res, st, txt, call, ev) ==
  [notes |-> n, meeting |-> m, result |-> res, status |-> st, text |-> txt,
   call |-> call, events |-> ev]

\* let result = "Done."; status = 'success'; textToSpeak = ""
Default(n, m) == Out(n, m, Str("Done.", ""), "success", NoText, NoCall, <<>>)

\* case 'code' up to its await
HandleCode(plan, query, n, m) ==
  [Default(n, m) EXCEPT
     !.call = Call("generateCode", OrElse(plan.topic, query), plan.content, <<>>),
     !.events = <<"call">>]

\* case 'papers' up to its await
HandlePapers(plan, n, m) ==
  [Default(n, m) EXCEPT
     !.call = Call("searchArxiv", OrElse(plan.topic, "General AI"), "", <<>>),
     !.events = <<"call">>]

\* case 'news' up to its await
HandleNews(plan, n, m) ==
  [Default(n, m) EXCEPT
     !.call = Call("generateNews", OrElse(plan.topic, "Latest Tech"), "", <<>>),
     !.events = <<"call">>]

\* case 'translate' up to its await
HandleTranslate(plan, query, n, m) ==
  [Default(n, m) EXCEPT
     !.call = Call("translateText", OrElse(plan.content, query),
                   OrElse(plan.language, "English"), <<>>),
     !.events = <<"call">>]

\* the updater notes_add passes to setNotes throws when React runs it:
\* [...(prev[addTopic] || []), noteContent] spreads an inherited value, which
\* is not iterable
NotesAddUpdaterThrows(plan, n) ==
  /\ plan.agent = "notes_add"
  /\ Truthy(plan.content)
  /\ HasInherited(n, ToLowerCase(OrElse(plan.topic, "general")))

\* HandleNotesAdd without the test of the content
HandleNotesAddNoCheck(plan, n, m) ==
  LET addTopic == ToLowerCase(OrElse(plan.topic, "general"))
      noteContent == plan.content
  IN Out(IF HasInherited(n, addTopic) THEN n
           ELSE NotesPut(n, addTopic, Append(NotesGet(n, addTopic), noteContent)), m,
         Str("Added note to", addTopic), "success",
         Say("Note added to", addTopic), NoCall, <<"mutate">>)

\* case 'notes_add': the updater is run by React when it renders; for a
\* topic with an inherited value it throws there and no NoteStore results
HandleNotesAdd(plan, n, m) ==
  LET addTopic == ToLowerCase(OrElse(plan.topic, "general"))
      noteContent == plan.content
  IN IF Truthy(noteContent)
       THEN Out(IF HasInherited(n, addTopic) THEN n
                  ELSE NotesPut(n, addTopic, Append(NotesGet(n, addTopic), noteContent)), m,
                Str("Added note to", addTopic), "success",
                Say("Note added to", addTopic), NoCall, <<"mutate">>)
       ELSE Out(n, m, Str("No content provided for the note.", ""), "error",
                Say("I didn't catch what you wanted to write.", ""), NoCall, <<>>)

\* notes[readTopic] || []: the topic's sequence, the inherited value, or []
NotesLookup(n, t) == IF HasInherited(n, t) THEN Inherited(t) ELSE List(NotesGet(n, t))

\* HandleNotesRead looking the topic up as the planner spelled it
HandleNotesReadNoFold(plan, snapN, n, m) ==
  LET readTopic == OrElse(plan.topic, "")
  IN IF readTopic = "all" \/ ~Truthy(readTopic)
       THEN Out(n, m,
                IF Flat(snapN) = <<>> THEN List(<<"No notes found.">>) ELSE List(Flat(snapN)),
                "success", Say("Here are all your notes.", ""), NoCall, <<>>)
       ELSE Out(n, m, NotesLookup(snapN, readTopic), "success",
                Say("Here are your notes on", readTopic), NoCall, <<>>)

\* HandleNotesRead emptying the store it has read
HandleNotesReadConsuming(plan, snapN, n, m) ==
  LET readTopic == ToLowerCase(OrElse(plan.topic, ""))
  IN IF readTopic = "all" \/ ~Truthy(readTopic)
       THEN Out(<<>>, m,
                IF Flat(snapN) = <<>> THEN List(<<"No notes found.">>) ELSE List(Flat(snapN)),
                "success", Say("Here are all your notes.", ""), NoCall, <<>>)
       ELSE Out(<<>>, m, NotesLookup(snapN, readTopic), "success",
                Say("Here are your notes on", readTopic), NoCall, <<>>)

\* case 'notes_read': reads the notes of the closure (snapN)
HandleNotesRead(plan, snapN, n, m) ==
  LET readTopic == ToLowerCase(OrElse(plan.topic, ""))
  IN IF readTopic = "all" \/ ~Truthy(readTopic)
       THEN Out(n, m,
                IF Flat(snapN) = <<>> THEN List(<<"No notes found.">>) ELSE List(Flat(snapN)),
                "success", Say("Here are all your notes.", ""), NoCall, <<>>)
       ELSE Out(n, m, NotesLookup(snapN, readTopic), "success",
                Say("Here are your notes on", readTopic), NoCall, <<>>)

\* HandleNotesClear deleting the key as the planner spelled it
HandleNotesClearNoFold(plan, n, m) ==
  LET clearTopic == OrElse(plan.topic, "")
  IN IF Truthy(clearTopic)
       THEN Out(NotesDelete(n, clearTopic), m, Str("Cleared notes for", clearTopic),
                "success", Say("Cleared notes for", clearTopic), NoCall, <<"mutate">>)
       ELSE Out(<<>>, m, Str("Cleared all notes.", ""), "success",
                Say("All notes cleared.", ""), NoCall, <<"mutate">>)

\* case 'notes_clear'
HandleNotesClear(plan, n, m) ==
  LET clearTopic == ToLowerCase(OrElse(plan.topic, ""))
  IN IF Truthy(clearTopic)
       THEN Out(NotesDelete(n, clearTopic), m, Str("Cleared notes for", clearTopic),
                "success", Say("Cleared notes for", clearTopic), NoCall, <<"mutate">>)
       ELSE Out(<<>>, m, Str("Cleared all notes.", ""), "success",
                Say("All notes cleared.", ""), NoCall, <<"mutate">>)

\* HandleMeetingStart keeping the log of the session it replaces
HandleMeetingStartKeepLog(plan, n, m) ==
  LET mTopic == OrElse(plan.topic, "General Meeting")
  IN Out(n, [active |-> TRUE, topic |-> mTopic, log |-> m.log, listening |-> TRUE],
         Str("Started meeting: . I am listening.", mTopic), "success",
         Say("Meeting started on . I am listening.", mTopic), NoCall, <<"mutate">>)

\* case 'meeting', action 'start'
HandleMeetingStart(plan, n, m) ==
  LET mTopic == OrElse(plan.topic, "General Meeting")
  IN Out(n, [active |-> TRUE, topic |-> mTopic, log |-> <<>>, listening |-> TRUE],
         Str("Started meeting: . I am listening.", mTopic), "success",
         Say("Meeting started on . I am listening.", mTopic), NoCall, <<"mutate">>)

\* HandleMeetingAdd logging plan.info.content without the || query fallback
HandleMeetingAddNoQueryFallback(plan, query, snapM, n, m) ==
  IF ~snapM.active
    THEN Out(n, [active |-> TRUE, topic |-> "Ad-hoc Discussion",
                 log |-> <<plan.content>>, listening |-> FALSE],
             Str("No active meeting found. Started and added log entry.", "Ad-hoc Discussion"),
             "success", Say("Meeting started and entry added.", ""), NoCall, <<"mutate">>)
    ELSE IF Truthy(plan.content)
      THEN Out(n, [m EXCEPT !.log = Append(m.log, plan.content)],
               Str("Added to meeting log.", ""), "success", Say("Added.", ""),
               NoCall, <<"mutate">>)
      ELSE Out(n, m, Str("Nothing to add.", ""), "success",
               Say("I didn't catch that.", ""), NoCall, <<>>)

\* case 'meeting', action 'add': tests the meeting of the closure (snapM),
\* appends with a functional update of the current one (m)
HandleMeetingAdd(plan, query, snapM, n, m) ==
  IF ~snapM.active
    THEN Out(n, [active |-> TRUE, topic |-> "Ad-hoc Discussion",
                 log |-> <<OrElse(plan.content, query)>>, listening |-> FALSE],
             Str("No active meeting found. Started and added log entry.", "Ad-hoc Discussion"),
             "success", Say("Meeting started and entry added.", ""), NoCall, <<"mutate">>)
    ELSE IF Truthy(plan.content)
      THEN Out(n, [m EXCEPT !.log = Append(m.log, plan.content)],
               Str("Added to meeting log.", ""), "success", Say("Added.", ""),
               NoCall, <<"mutate">>)
      ELSE Out(n, m, Str("Nothing to add.", ""), "success",
               Say("I didn't catch that.", ""), NoCall, <<>>)

\* HandleMeetingStop without the test of meeting.active
HandleMeetingStopAlways(snapM, n, m) ==
  Out(n, [m EXCEPT !.listening = FALSE], Str("Done.", ""), "success", NoText,
      Call("summarizeMeetingLog", snapM.topic, "", snapM.log),
      <<"mutate", "call">>)

\* case 'meeting', action 'stop' up to its await: tests the meeting of the
\* closure and passes the closure's topic and log to the summarizer
HandleMeetingStop(snapM, n, m) ==
  IF ~snapM.active
    THEN Out(n, m, Str("No active meeting to stop.", ""), "error",
             Say("There is no active meeting.", ""), NoCall, <<>>)
    ELSE Out(n, [m EXCEPT !.listening = FALSE], Str("Done.", ""), "success", NoText,
             Call("summarizeMeetingLog", snapM.topic, "", snapM.log),
             <<"mutate", "call">>)

\* HandleMeetingOther with the failure spoken
HandleMeetingOtherSpoken(n, m) ==
  Out(n, m, Str("Unknown meeting action.", ""), "error",
      Say("Unknown meeting action.", ""), NoCall, <<>>)

\* case 'meeting', the else branch: the action is none of start, add, stop
HandleMeetingOther(n, m) ==
  Out(n, m, Str("Unknown meeting action.", ""), "error", NoText, NoCall, <<>>)

\* case 'meeting'
HandleMeeting(plan, query, snapM, n, m) ==
  CASE plan.meetingAction = "start" -> HandleMeetingStart(plan, n, m)
    [] plan.meetingAction = "add" -> HandleMeetingAdd(plan, query, snapM, n, m)
    [] plan.meetingAction = "stop" -> HandleMeetingStop(snapM, n, m)
    [] OTHER -> HandleMeetingOther(n, m)

\* HandleUnknown with status = 'error' forgotten
HandleUnknownSuccess(n, m) ==
  Out(n, m, Str("I couldn't quite understand that.", ""), "success",
      Say("I'm not sure how to help with that.", ""), NoCall, <<>>)

\* case 'unknown'
HandleUnknown(n, m) ==
  Out(n, m, Str("I couldn't quite understand that.", ""), "error",
      Say("I'm not sure how to help with that.", ""), NoCall, <<>>)

\* switch (plan.agent): no default branch, so any other agent value leaves
\* result "Done.", status 'success' and textToSpeak ''
Execute(plan, query, snapN, snapM, n, m) ==
  CASE plan.agent = "code" -> HandleCode(plan, query, n, m)
    [] plan.agent = "papers" -> HandlePapers(plan, n, m)
    [] plan.agent = "news" -> HandleNews(plan, n, m)
    [] plan.agent = "translate" -> HandleTranslate(plan, query, n, m)
    [] plan.agent = "notes_add" -> HandleNotesAdd(plan, n, m)
    [] plan.agent = "notes_read" -> HandleNotesRead(plan, snapN, n, m)
    [] plan.agent = "notes_clear" -> HandleNotesClear(plan, n, m)
    [] plan.agent = "meeting" -> HandleMeeting(plan, query, snapM, n, m)
    [] plan.agent = "unknown" -> HandleUnknown(n, m)
    [] OTHER -> Default(n, m)

\* the catch (execError) block: status, errorMsg and textToSpeak are
\* overwritten, result keeps the value it had ("Done.")
ExecError(o) ==
  [o EXCEPT !.status = "error", !.text = Say("Something went wrong during execution.", ""),
            !.call = NoCall, !.events = <<>>]

\* ErrorMessage without the || "Execution failed" fallback
ErrorMessageRaw(message) == message

\* execError.message || "Execution failed"
ErrorMessage(message) == OrElse(message, "Execution failed")

\* a handler from the return of its awaited call r to its break; on a throw
\* the rest of the case is skipped and the catch block runs
Resume(call, r, n, m) ==
  IF r.threw
    THEN ExecError(Default(n, m))
    ELSE CASE call.fn = "generateCode" ->
                Out(n, m, r.value, "success",
                    Say("I've generated the Python code for", call.a1), NoCall, <<>>)
           [] call.fn = "searchArxiv" ->
                Out(n, m, r.value, "success",
                    Say("I found some ArXiv papers related to", call.a1), NoCall, <<>>)
           [] call.fn = "generateNews" ->
                Out(n, m, r.value, "success",
                    Say("Here is the latest news update.", ""), NoCall, <<>>)
           [] call.fn = "translateText" ->
                Out(n, m, r.value, "success", Say(r.value.msg, ""), NoCall, <<>>)
           [] call.fn = "summarizeMeetingLog" ->
                Out(n, InactiveMeeting, r.value, "success",
                    Say("Meeting stopped. Here is your summary and action items.", ""),
                    NoCall, <<"mutate">>)
           [] OTHER -> Default(n, m)

\* ------------------------------------------------- meeting listener effect

\* `[Speech]: ${transcript}` for the trimmed transcripts of the model
SpeechEntry(t) == CASE t = "t1" -> "[Speech]: t1" [] OTHER -> "[Speech]: ?"

\* what the recognition service can deliver to onresult: the last result's
\* isFinal flag and transcript
ResultEvents == [final : BOOLEAN, text : {"t1", " t1 ", "  "}]

\* recognition.onresult: appends a final, non-blank transcript with a
\* functional update of the current meeting, whatever its active flag
OnResultUpdate(ev, m) ==
  IF ev.final /\ Truthy(Trim(ev.text))
    THEN [m EXCEPT !.log = Append(m.log, SpeechEntry(Trim(ev.text)))]
    ELSE m

\* The useEffect on [meeting.active, meeting.listening] after a commit that
\* takes meeting from old to new: unchanged dependencies do nothing;
\* otherwise the previous cleanup stops the referenced instance and clears
\* the ref, then the body starts a new instance when active and listening
\* (no SpeechRecognition: alert and listening false; start() throws:
\* listening false), or stops again.  A stopped running instance may still
\* deliver the result of the audio it has captured.
EffectOutcomes(old, new, rec, dr, supported) ==
  IF old.active = new.active /\ old.listening = new.listening
    THEN {[meeting |-> new, rec |-> rec, draining |-> dr, alert |-> 0]}
    ELSE LET dr1 == dr \/ rec = "running"
             off == [new EXCEPT !.listening = FALSE]
         IN IF new.active /\ new.listening
              THEN IF ~supported
                     THEN {[meeting |-> off, rec |-> "none", draining |-> dr1, alert |-> 1]}
                     ELSE {[meeting |-> new, rec |-> "running", draining |-> dr1, alert |-> 0],
                           [meeting |-> off, rec |-> "none", draining |-> dr1, alert |-> 0]}
              ELSE {[meeting |-> new, rec |-> "none", draining |-> dr1, alert |-> 0]}

\* a commit of setMeeting(new) followed by the listener effect
CommitMeeting(new) ==
  \E e \in EffectOutcomes(meeting, new, meetingRec, draining, srSupported) :
    /\ alerts + e.alert <= MaxAlerts
    /\ meeting' = e.meeting
    /\ meetingRec' = e.rec
    /\ draining' = e.draining
    /\ alerts' = alerts + e.alert

\* AvatarEffect with a cleanup that does not cancel the pending frame
AvatarEffectNoCancel(ph, an, ph2, an2, m2, fr, sm) ==
  IF ~m2 THEN [frame |-> 0, sampled |-> 0]
  ELSE IF ph2 = ph /\ an2 = an THEN [frame |-> fr, sampled |-> sm]
  ELSE IF ph2 = "speaking" /\ an2 # 0 THEN [frame |-> an2, sampled |-> 0]
  ELSE [frame |-> fr, sampled |-> 0]

\* BotAvatar's lip-sync effect at a commit that takes phase and
\* audioAnalyser from (ph, an) to (ph2, an2): with a dependency changed,
\* or the avatar unmounted, the cleanup cancels the pending frame and
\* resets the mouth's height; then, while speaking with an analyser, the
\* effect calls animate(), which leaves a frame pending
AvatarEffect(ph, an, ph2, an2, m2, fr, sm) ==
  IF ~m2 THEN [frame |-> 0, sampled |-> 0]
  ELSE IF ph2 = ph /\ an2 = an THEN [frame |-> fr, sampled |-> sm]
  ELSE IF ph2 = "speaking" /\ an2 # 0 THEN [frame |-> an2, sampled |-> 0]
  ELSE [frame |-> 0, sampled |-> 0]

\* the avatar's part of a commit of App's state
AvatarCommit ==
  LET e == AvatarEffect(loadingPhase, currentAnalyser, loadingPhase',
                        currentAnalyser', mounted', frame, sampled)
  IN  frame' = e.frame /\ sampled' = e.sampled

\* sourceRef.current.stop(): a playing source stops; its 'ended' event follows
StopSource(srcs, ref) ==
  IF ref # 0 /\ srcs[ref] = "playing" THEN [srcs EXCEPT ![ref] = "stopped"] ELSE srcs

\* ------------------------------------------------------------------ actions

\* GuardRejects testing !query instead of !query.trim()
GuardNoTrim(query, ld) == ~Truthy(query) \/ ld

\* GuardRejects without the loading test
GuardNoLoading(query, ld) == ~Truthy(Trim(query))

\* if (!query.trim() || loading) return
GuardRejects(query, ld) == ~Truthy(Trim(query)) \/ ld

\* handleRun returning at its guard
HandleRunIgnored(query) ==
  /\ mounted
  /\ GuardRejects(query, loading)
  /\ lastCall' = [tick |-> 1 - lastCall.tick, query |-> query, ignored |-> TRUE]
  /\ UNCHANGED <<apiKey, srSupported, newsState, newsSources,
                 isListeningInput, inputRecognitionRef, voiceRec,
                 history, notes, meeting, loading,
                 loadingPhase, currentPlannerData, currentAnalyser, runs, synth,
                 playing, meetingRec, draining, alerts, accepted, trace, thrown, mounted, lastPlan>>
  /\ AvatarCommit

\* the local state of a handleRun invocation suspended at an await: its
\* query, the meeting and notes of its closure, newItem.plannerOutput and
\* the call it awaits; pre is the session state when its handler started
\* (until then, the state it was submitted in)
NewRun(id, query, m, n) ==
  [id |-> id, pc |-> "plan", query |-> query, meeting |-> m, notes |-> n,
   plan |-> PlaceholderPlan, call |-> NoCall, pre |-> [notes |-> n, meeting |-> m]]

\* handleRun from its guard to await planRequest(query)
HandleRunAccepted(query, cap) ==
  /\ mounted
  /\ ~GuardRejects(query, loading)
  /\ accepted < cap
  /\ lastCall' = [tick |-> 1 - lastCall.tick, query |-> query, ignored |-> FALSE]
  /\ loading' = TRUE
  /\ loadingPhase' = "planning"
  /\ currentPlannerData' = NoPlannerData
  /\ accepted' = accepted + 1
  /\ runs' = Append(runs, NewRun(accepted + 1, query, meeting, notes))
  /\ trace' = <<"accepted">>
  /\ thrown' = None
  /\ UNCHANGED <<apiKey, srSupported, newsState, newsSources,
                 isListeningInput, inputRecognitionRef, voiceRec,
                 history, notes, meeting, currentAnalyser, synth,
                 playing, meetingRec, draining, alerts, mounted, lastPlan>>
  /\ AvatarCommit

\* runs without its i-th element
Without(rs, i) == [j \in 1..(Len(rs) - 1) |-> IF j < i THEN rs[j] ELSE rs[j + 1]]

\* Item with newItem.status = status forgotten: the item keeps 'planning'
ItemStatusNotUpdated(id, query, plan, result, status, errorMessage) ==
  [id |-> id, userQuery |-> query, plannerOutput |-> plan, result |-> result,
   status |-> "planning", errorMessage |-> errorMessage]

\* a HistoryItem; the id (Date.now() of the submission) is the run's number
Item(id, query, plan, result, status, errorMessage) ==
  [id |-> id, userQuery |-> query, plannerOutput |-> plan, result |-> result,
   status |-> status, errorMessage |-> errorMessage]

\* setHistory(prev => [newItem, ...prev])
PrependItem(h, item) == <<item>> \o h

\* setHistory(prev => [...prev, newItem])
AppendItem(h, item) == Append(h, item)

\* TailEvents with the speech request issued before the history append
TailEventsSpeechFirst(text) ==
  IF Truthy(text.msg) THEN <<"speech", "append">> ELSE <<"append">>

\* the events of lines 359-373 in program order: the history append, then
\* the speech request when textToSpeak is not empty
TailEvents(text) ==
  IF Truthy(text.msg) THEN <<"append", "speech">> ELSE <<"append">>

\* handleRun from newItem.result = result to the end of finally: the item is
\* appended, speech is requested or the phase set to idle, loading cleared.
\* out is what the handler left; phase is the phase the stretch has set so far.
Finish(i, plan, out, errorMessage, phase, events) ==
  /\ notes' = out.notes
  /\ CommitMeeting(out.meeting)
  /\ history' = AppendItem(history,
                           Item(runs[i].id, runs[i].query, plan, out.result,
                                out.status, errorMessage))
  /\ IF Truthy(out.text.msg)
       THEN synth' = synth \cup {runs[i].id} /\ loadingPhase' = phase
       ELSE synth' = synth /\ loadingPhase' = "idle"
  /\ loading' = FALSE
  /\ runs' = Without(runs, i)
  /\ trace' = trace \o events \o out.events \o TailEvents(out.text)

\* the outer catch block and finally: planRequest rejected
OuterCatch(i) ==
  /\ history' = AppendItem(history,
                           Item(runs[i].id, runs[i].query, runs[i].plan, Null, "error",
                                "Planning failed unexpectedly."))
  /\ loading' = FALSE
  /\ loadingPhase' = "idle"
  /\ runs' = Without(runs, i)
  /\ trace' = trace \o <<"planRejected", "append">>
  /\ UNCHANGED <<notes, meeting, currentPlannerData, synth, meetingRec, draining, alerts>>

\* handleRun runs to its end, but the render of its state updates throws
\* (a setNotes updater threw): no error boundary surrounds App, so React
\* unmounts it and none of the updates is committed; the unmount runs the
\* listener effect's cleanup.  The speech request has been issued.
Unmount(i, out, events) ==
  /\ mounted' = FALSE
  /\ runs' = Without(runs, i)
  /\ synth' = (IF Truthy(out.text.msg) THEN synth \cup {runs[i].id} ELSE synth)
  /\ meetingRec' = "none"
  /\ draining' = (draining \/ meetingRec = "running")
  /\ trace' = trace \o events \o out.events \o TailEvents(out.text) \o <<"unmount">>
  /\ UNCHANGED <<history, notes, meeting, loading, loadingPhase, currentPlannerData,
                 alerts>>

\* the event the planner's settlement leaves in the trace
PlanEvent(o) == IF o.kind = "json" THEN "planned" ELSE "planFallback"

\* handleRun resumed after await planRequest(query), up to the handler's
\* await or, for a handler without one, to the end of handleRun
PlanSettle(P) ==
  \E i \in 1..Len(runs) : \E o \in BackendOutcomes(P) :
    /\ mounted
    /\ runs[i].pc = "plan"
    /\ LET r == planRequest(apiKey, o)
           out == Execute(r.value, runs[i].query, runs[i].notes, runs[i].meeting,
                          notes, meeting)
       IN IF r.threw
            THEN OuterCatch(i) /\ UNCHANGED <<mounted, lastPlan>>
            ELSE IF NotesAddUpdaterThrows(r.value, notes)
              THEN Unmount(i, out, <<PlanEvent(o), "handler">>) /\ lastPlan' = r.value
              ELSE
                 /\ currentPlannerData' = r.value
                 /\ lastPlan' = r.value
                 /\ UNCHANGED mounted
                 /\ IF out.call.fn = "none"
                      THEN Finish(i, r.value, out, "", "executing",
                                  <<PlanEvent(o), "handler">>)
                      ELSE /\ notes' = out.notes
                           /\ CommitMeeting(out.meeting)
                           /\ loadingPhase' = "executing"
                           /\ runs' = [runs EXCEPT
                                         ![i].pc = "call", ![i].plan = r.value,
                                         ![i].call = out.call,
                                         ![i].pre = [notes |-> notes, meeting |-> meeting]]
                           /\ trace' = trace \o <<PlanEvent(o), "handler">> \o out.events
                           /\ UNCHANGED <<history, loading, synth>>
    /\ UNCHANGED <<apiKey, srSupported, newsState, isListeningInput, inputRecognitionRef, voiceRec,
                   currentAnalyser, playing,
                   accepted, lastCall, thrown>>
    /\ newsSources' = (IF mounted' THEN newsSources ELSE StopSource(newsSources, sourceRef))
    /\ AvatarCommit

\* handleRun resumed after the handler's awaited collaborator call, to the
\* end of handleRun
CallSettle ==
  \E i \in 1..Len(runs) :
    /\ mounted
    /\ runs[i].pc = "call"
    /\ \E r \in CollabOutcomes(runs[i].call.fn) :
         /\ Finish(i, runs[i].plan, Resume(runs[i].call, r, notes, meeting),
                   IF r.threw THEN ErrorMessage(r.message) ELSE "", loadingPhase, <<>>)
         /\ thrown' = (IF r.threw THEN r.message ELSE None)
    /\ UNCHANGED <<apiKey, srSupported, newsState, newsSources,
                   isListeningInput, inputRecognitionRef, voiceRec,
                   currentPlannerData, currentAnalyser,
                   playing, accepted, lastCall, mounted, lastPlan>>
    /\ AvatarCommit

\* SpeechSettle with no setLoadingPhase('idle') where nothing is played
SpeechSettleKeepsPhase ==
  \E id \in synth : \E audio \in BOOLEAN : \E started \in BOOLEAN :
    /\ mounted
    /\ synth' = synth \ {id}
    /\ IF audio /\ started
         THEN /\ currentAnalyser' = id
              /\ loadingPhase' = "speaking"
              /\ playing' = playing \cup {id}
         ELSE /\ currentAnalyser' = (IF audio THEN 0 ELSE currentAnalyser)
              /\ loadingPhase' = loadingPhase
              /\ playing' = playing
    /\ UNCHANGED <<apiKey, srSupported, newsState, newsSources,
                   isListeningInput, inputRecognitionRef, voiceRec,
                   history, notes, meeting, loading,
                   currentPlannerData, runs, meetingRec, draining, alerts,
                   accepted, lastCall, trace, thrown, mounted, lastPlan>>
    /\ AvatarCommit

\* SpeechSettle with a failure recorded in the run's HistoryItem
SpeechSettleMarksError ==
  \E id \in synth : \E audio \in BOOLEAN : \E started \in BOOLEAN :
    /\ mounted
    /\ synth' = synth \ {id}
    /\ IF audio /\ started
         THEN /\ currentAnalyser' = id
              /\ loadingPhase' = "speaking"
              /\ playing' = playing \cup {id}
              /\ history' = history
         ELSE /\ currentAnalyser' = (IF audio THEN 0 ELSE currentAnalyser)
              /\ loadingPhase' = "idle"
              /\ playing' = playing
              /\ history' = [k \in 1..Len(history) |->
                               IF history[k].id = id
                                 THEN [history[k] EXCEPT !.status = "error"]
                                 ELSE history[k]]
    /\ UNCHANGED <<apiKey, srSupported, newsState, newsSources,
                   isListeningInput, inputRecognitionRef, voiceRec,
                   notes, meeting, loading,
                   currentPlannerData, runs, meetingRec, draining, alerts,
                   accepted, lastCall, trace, thrown, mounted, lastPlan>>
    /\ AvatarCommit

\* generateSpeech(textToSpeak).then(...): no audio sets the phase to idle;
\* with audio playGlobalAudio starts a source (phase speaking, analyser set)
\* or fails in its try block (phase idle, analyser null)
SpeechSettle ==
  \E id \in synth : \E audio \in BOOLEAN : \E started \in BOOLEAN :
    /\ mounted
    /\ synth' = synth \ {id}
    /\ IF audio /\ started
         THEN /\ currentAnalyser' = id
              /\ loadingPhase' = "speaking"
              /\ playing' = playing \cup {id}
         ELSE /\ currentAnalyser' = (IF audio THEN 0 ELSE currentAnalyser)
              /\ loadingPhase' = "idle"
              /\ playing' = playing
    /\ UNCHANGED <<apiKey, srSupported, newsState, newsSources,
                   isListeningInput, inputRecognitionRef, voiceRec,
                   history, notes, meeting, loading,
                   currentPlannerData, runs, meetingRec, draining, alerts,
                   accepted, lastCall, trace, thrown, mounted, lastPlan>>
    /\ AvatarCommit

\* PlaybackEnded with an onended that only clears the analyser
PlaybackEndedKeepsPhase ==
  \E id \in playing :
    /\ mounted
    /\ playing' = playing \ {id}
    /\ currentAnalyser' = 0
    /\ UNCHANGED <<apiKey, srSupported, newsState, newsSources,
                   isListeningInput, inputRecognitionRef, voiceRec,
                   history, notes, meeting, loading, loadingPhase,
                   currentPlannerData, runs, synth, meetingRec, draining,
                   alerts, accepted, lastCall, trace, thrown, mounted, lastPlan>>
    /\ AvatarCommit

\* source.onended
PlaybackEnded ==
  \E id \in playing :
    /\ mounted
    /\ playing' = playing \ {id}
    /\ loadingPhase' = "idle"
    /\ currentAnalyser' = 0
    /\ UNCHANGED <<apiKey, srSupported, newsState, newsSources,
                   isListeningInput, inputRecognitionRef, voiceRec,
                   history, notes, meeting, loading,
                   currentPlannerData, runs, synth, meetingRec, draining,
                   alerts, accepted, lastCall, trace, thrown, mounted, lastPlan>>
    /\ AvatarCommit

\* ToggleMeetingListener with the button rendered whether or not a meeting is active
ToggleMeetingListenerAlways ==
  /\ mounted
  /\ CommitMeeting([meeting EXCEPT !.listening = ~meeting.listening])
  /\ UNCHANGED <<apiKey, srSupported, newsState, newsSources,
                 isListeningInput, inputRecognitionRef, voiceRec,
                 history, notes, loading, loadingPhase,
                 currentPlannerData, currentAnalyser, runs, synth, playing,
                 accepted, lastCall, trace, thrown, mounted, lastPlan>>
  /\ AvatarCommit

\* toggleMeetingListener; its button is rendered only while meeting.active
ToggleMeetingListener ==
  /\ mounted
  /\ meeting.active
  /\ CommitMeeting([meeting EXCEPT !.listening = ~meeting.listening])
  /\ UNCHANGED <<apiKey, srSupported, newsState, newsSources,
                 isListeningInput, inputRecognitionRef, voiceRec,
                 history, notes, loading, loadingPhase,
                 currentPlannerData, currentAnalyser, runs, synth, playing,
                 accepted, lastCall, trace, thrown, mounted, lastPlan>>
  /\ AvatarCommit

\* recognition.onresult of the running meeting instance
OnResult(cap) ==
  \E ev \in ResultEvents :
    /\ mounted
    /\ meetingRec = "running"
    /\ OnResultUpdate(ev, meeting) # meeting => Len(meeting.log) < cap
    /\ meeting' = OnResultUpdate(ev, meeting)
    /\ UNCHANGED <<apiKey, srSupported, newsState, newsSources,
                   isListeningInput, inputRecognitionRef, voiceRec,
                   history, notes, loading, loadingPhase,
                   currentPlannerData, currentAnalyser, runs, synth, playing, meetingRec,
                   draining, alerts, accepted, lastCall, trace, thrown, mounted, lastPlan>>
    /\ AvatarCommit

\* recognition.onresult of an instance after its stop(): the result of the
\* audio captured before the stop; the instance then ends
OnResultAfterStop(cap) ==
  \E ev \in ResultEvents :
    /\ mounted
    /\ draining
    /\ OnResultUpdate(ev, meeting) # meeting => Len(meeting.log) < cap
    /\ meeting' = OnResultUpdate(ev, meeting)
    /\ draining' = FALSE
    /\ UNCHANGED <<apiKey, srSupported, newsState, newsSources,
                   isListeningInput, inputRecognitionRef, voiceRec,
                   history, notes, loading, loadingPhase,
                   currentPlannerData, currentAnalyser, runs, synth, playing, meetingRec,
                   alerts, accepted, lastCall, trace, thrown, mounted, lastPlan>>
    /\ AvatarCommit

\* recognition.onend: only logs; an instance that ends by itself stays in the ref
OnEnd ==
  /\ mounted
  /\ \/ meetingRec = "running" /\ meetingRec' = "ended" /\ draining' = draining
     \/ draining /\ draining' = FALSE /\ meetingRec' = meetingRec
  /\ UNCHANGED <<apiKey, srSupported, newsState, newsSources,
                 isListeningInput, inputRecognitionRef, voiceRec,
                 history, notes, meeting, loading,
                 loadingPhase, currentPlannerData, currentAnalyser, runs, synth, playing,
                 alerts, accepted, lastCall, trace, thrown, mounted, lastPlan>>
  /\ AvatarCommit

\* the errors the recognition service reports to onerror
RecognitionErrors == {"no-speech", "not-allowed", "service-not-allowed", "network"}

\* OnErrorUpdate with the denial branches setting listening without alert()
OnErrorUpdateNoAlert(err, m) ==
  IF err \in {"not-allowed", "service-not-allowed"}
    THEN [meeting |-> [m EXCEPT !.listening = FALSE], alert |-> 0]
    ELSE [meeting |-> m, alert |-> 0]

\* recognition.onerror: the meeting it sets and the alerts it raises
OnErrorUpdate(err, m) ==
  IF err \in {"not-allowed", "service-not-allowed"}
    THEN [meeting |-> [m EXCEPT !.listening = FALSE], alert |-> 1]
    ELSE [meeting |-> m, alert |-> 0]

\* recognition.onerror of the running meeting instance; a permission or
\* service denial has ended the instance, so the stop() of the effect's
\* cleanup finds nothing left to deliver
OnErrorOf(err) ==
  /\ mounted
  /\ meetingRec = "running"
  /\ alerts + OnErrorUpdate(err, meeting).alert <= MaxAlerts
  /\ \E e \in EffectOutcomes(meeting, OnErrorUpdate(err, meeting).meeting,
                             IF err \in {"not-allowed", "service-not-allowed"}
                               THEN "ended" ELSE meetingRec,
                             draining, srSupported) :
       /\ meeting' = e.meeting
       /\ meetingRec' = e.rec
       /\ draining' = e.draining
  /\ alerts' = alerts + OnErrorUpdate(err, meeting).alert
  /\ UNCHANGED <<apiKey, srSupported, newsState, newsSources,
                 isListeningInput, inputRecognitionRef, voiceRec,
                 history, notes, loading, loadingPhase,
                 currentPlannerData, currentAnalyser, runs, synth, playing,
                 accepted, lastCall, trace, thrown, mounted, lastPlan>>
  /\ AvatarCommit

\* recognition.onerror with any of the errors the service reports
OnError == \E err \in RecognitionErrors : OnErrorOf(err)

\* the states in which a voice-input instance holds the microphone: start()
\* was called on it and neither stop() nor an error or end event followed
VoiceLive == {"starting", "running"}

\* inputRecognitionRef.current?.stop()
StopVoice(rec, ref) ==
  IF ref # 0 /\ rec[ref] \in VoiceLive THEN [rec EXCEPT ![ref] = "ending"] ELSE rec

\* handleVoiceInput, the microphone button of the input form (never
\* disabled): while isListeningInput it stops the instance in the ref;
\* otherwise it creates and starts a new instance and stores it in the ref.
\* The browsers that have the recognition constructor have it under the
\* webkit name, so srSupported stands for 'webkitSpeechRecognition' in window.
HandleVoiceInput ==
  /\ mounted
  /\ IF isListeningInput
       THEN /\ voiceRec' = StopVoice(voiceRec, inputRecognitionRef)
            /\ isListeningInput' = FALSE
            /\ UNCHANGED <<inputRecognitionRef, alerts>>
       ELSE IF ~srSupported
         THEN /\ alerts < MaxAlerts
              /\ alerts' = alerts + 1
              /\ UNCHANGED <<isListeningInput, inputRecognitionRef, voiceRec>>
         ELSE /\ Len(voiceRec) < MaxVoiceInstances
              /\ voiceRec' = Append(voiceRec, "starting")
              /\ inputRecognitionRef' = Len(voiceRec) + 1
              /\ UNCHANGED <<isListeningInput, alerts>>
  /\ UNCHANGED <<apiKey, srSupported, newsState, newsSources, history, notes, meeting, loading,
                 loadingPhase, currentPlannerData, currentAnalyser, runs, synth,
                 playing, meetingRec, draining, accepted, lastCall, trace,
                 thrown, mounted, lastPlan>>
  /\ AvatarCommit

\* what is left unchanged by the callbacks of a voice-input instance
VoiceCallbackKeeps ==
  /\ UNCHANGED <<apiKey, srSupported, newsState, newsSources, history, notes, meeting, loading,
              loadingPhase, currentPlannerData, currentAnalyser, runs, synth,
              playing, meetingRec, draining, alerts, accepted, lastCall, trace,
              thrown, mounted, lastPlan, inputRecognitionRef>>
  /\ AvatarCommit

\* recognition.onstart of a voice-input instance
VoiceOnStart ==
  \E k \in 1..Len(voiceRec) :
    /\ mounted
    /\ voiceRec[k] = "starting"
    /\ voiceRec' = [voiceRec EXCEPT ![k] = "running"]
    /\ isListeningInput' = TRUE
    /\ VoiceCallbackKeeps

\* recognition.onend of a voice-input instance: the session ended after its
\* result, after stop(), after an error, or was ended by the browser
VoiceOnEnd ==
  \E k \in 1..Len(voiceRec) :
    /\ mounted
    /\ voiceRec[k] # "ended"
    /\ voiceRec' = [voiceRec EXCEPT ![k] = "ended"]
    /\ isListeningInput' = FALSE
    /\ VoiceCallbackKeeps

\* recognition.onerror of a voice-input instance; the session is over and
\* its end event follows
VoiceOnError ==
  \E k \in 1..Len(voiceRec) :
    /\ mounted
    /\ voiceRec[k] \in VoiceLive
    /\ voiceRec' = [voiceRec EXCEPT ![k] = "ending"]
    /\ isListeningInput' = FALSE
    /\ VoiceCallbackKeeps

\* animate() run as the pending animation frame's callback: it samples the
\* analyser of its closure, sets the mouth's height and requests the next frame
Animate ==
  /\ mounted
  /\ frame # 0
  /\ sampled' = frame
  /\ UNCHANGED <<apiKey, srSupported, newsState, newsSources, history, notes, meeting, loading,
                 loadingPhase, currentPlannerData, currentAnalyser, runs, synth,
                 playing, meetingRec, draining, alerts, accepted, lastCall, trace,
                 thrown, mounted, lastPlan, isListeningInput, inputRecognitionRef,
                 voiceRec, frame>>

\* what a click or a callback of the NewsPlayer leaves unchanged
NewsPlayerKeeps ==
  UNCHANGED <<apiKey, srSupported, history, notes, meeting, loading,
              loadingPhase, currentPlannerData, currentAnalyser, runs, synth,
              playing, meetingRec, draining, alerts, accepted, lastCall, trace,
              thrown, mounted, lastPlan, isListeningInput, inputRecognitionRef,
              voiceRec, frame, sampled>>

\* NewsPlayer.playAudio of a result with audioData, the play/pause button:
\* while isPlaying it stops the source in the ref; otherwise it sets a new
\* source up and starts it, or fails on the way and reports the error
PlayAudio ==
  /\ mounted
  /\ IF isPlaying
       THEN /\ newsSources' = StopSource(newsSources, sourceRef)
            /\ sourceRef' = 0
            /\ isPlaying' = FALSE
            /\ analyser' = 0
            /\ error' = error
       ELSE \E ok \in BOOLEAN :
              IF ok
                THEN /\ Len(newsSources) < MaxNewsSources
                     /\ newsSources' = Append(newsSources, "playing")
                     /\ sourceRef' = Len(newsSources) + 1
                     /\ isPlaying' = TRUE
                     /\ analyser' = Len(newsSources) + 1
                     /\ error' = error
                ELSE /\ error' = "Failed to play audio."
                     /\ isPlaying' = FALSE
                     /\ analyser' = 0
                     /\ UNCHANGED <<sourceRef, newsSources>>
  /\ NewsPlayerKeeps

\* source.onended of a NewsPlayer source: the source played to its end, or
\* stop() was called on it
NewsEnded ==
  \E k \in 1..Len(newsSources) :
    /\ mounted
    /\ newsSources[k] # "ended"
    /\ newsSources' = [newsSources EXCEPT ![k] = "ended"]
    /\ isPlaying' = FALSE
    /\ analyser' = 0
    /\ UNCHANGED <<sourceRef, error>>
    /\ NewsPlayerKeeps

\* ----------------------------------------------------------- specifications

\* the planner outputs of the general dispatch specification: every agent,
\* each meeting action, a meeting start with a topic of its own, a missing
\* note content and an agent outside AgentTypes
GeneralPlans ==
  {Plan(a, None, None, None, None, None) :
     a \in {"code", "papers", "news", "translate", "notes_read", "notes_clear",
            "unknown", "weather"}}
    \cup {Plan("notes_add", None, c, None, None, None) : c \in {None, "c1"}}
    \cup {Plan("meeting", None, "c1", act, None, None) : act \in {"start", "add", "stop", None}}
    \cup {Plan("meeting", "Standup", None, "start", None, None)}

\* the planner outputs of the meeting specification
MeetingPlans ==
  {Plan("meeting", None, c, act, None, None) :
     c \in {None, "c1"}, act \in {"add"}}
    \cup {Plan("meeting", None, None, act, None, None) : act \in {"start", "stop", "pause"}}

\* the planner outputs of the pipeline specification
PipelinePlans ==
  {Plan(a, None, None, None, None, None) : a \in {"code", "unknown", "weather"}}

\* the dispatch specification: accepted runs over every agent, with the
\* meeting stream and the listener toggle running beside them
Next ==
  \/ HandleRunAccepted("hi", MaxRuns)
  \/ PlanSettle(GeneralPlans)
  \/ CallSettle
  \/ ToggleMeetingListener
  \/ OnResult(MaxDispatchLog)

Spec == Init /\ [][Next]_vars

\* the pipeline specification: every submission, ignored or accepted, and
\* the speech synthesis and playback that follow a run
NextPipeline ==
  \/ \E q \in Queries : HandleRunIgnored(q)
  \/ \E q \in Queries : HandleRunAccepted(q, MaxPipelineRuns)
  \/ PlanSettle(PipelinePlans)
  \/ CallSettle
  \/ SpeechSettle
  \/ PlaybackEnded

SpecPipeline == Init /\ [][NextPipeline]_vars

\* the pipeline specification with the scheduling the runtime gives: a
\* promise that can settle does settle (the planner call, the handler's
\* collaborator call, the speech synthesis) and a started source ends
SpecPipelineFair ==
  /\ SpecPipeline
  /\ WF_vars(PlanSettle(PipelinePlans))
  /\ WF_vars(CallSettle)
  /\ WF_vars(SpeechSettle)
  /\ WF_vars(PlaybackEnded)

\* the meeting specification: meeting runs with the whole life of the
\* meeting recognition stream
NextMeeting ==
  \/ HandleRunAccepted("hi", MaxMeetingRuns)
  \/ PlanSettle(MeetingPlans)
  \/ CallSettle
  \/ ToggleMeetingListener
  \/ OnResult(MaxLog)
  \/ OnResultAfterStop(MaxLog)
  \/ OnEnd
  \/ OnError

SpecMeeting == Init /\ [][NextMeeting]_vars

\* the planner outputs of the notes specification: notes under the default
\* topic, under one topic spelled in two cases, under the topic 'ALL' and
\* under a name objects inherit, a missing and an empty content, reads and
\* clears with and without topic
NotesPlans ==
  {Plan("notes_add", None, "Buy milk", None, None, None),
   Plan("notes_add", "Work", "c1", None, None, None),
   Plan("notes_add", "work", "c2", None, None, None),
   Plan("notes_add", "ALL", "c3", None, None, None),
   Plan("notes_add", "constructor", "c1", None, None, None),
   Plan("notes_add", None, None, None, None, None),
   Plan("notes_add", "Work", "", None, None, None)}
    \cup {Plan("notes_read", t, None, None, None, None) :
            t \in {None, "ALL", "Work", "constructor"}}
    \cup {Plan("notes_clear", t, None, None, None, None) : t \in {None, "Work"}}

\* the notes specification starts with the API key set and speech
\* recognition present: neither is read by a notes handler
InitNotes == Init /\ apiKey /\ srSupported

\* the notes specification: runs of the three notes handlers
NextNotes ==
  \/ HandleRunAccepted("hi", MaxNotesRuns)
  \/ PlanSettle(NotesPlans)

SpecNotes == InitNotes /\ [][NextNotes]_vars

\* the planner output of the voice-input specification: a note whose topic
\* is an inherited key, the run that unmounts App
VoicePlans == {Plan("notes_add", "constructor", "c1", None, None, None)}

\* the voice-input specification: the microphone button and the callbacks
\* of the instances it starts, beside a run that can unmount App.  (The
\* onresult callback only puts the transcript in the input box, which a
\* submission hands to handleRun as its query.)
NextVoice ==
  \/ HandleVoiceInput
  \/ VoiceOnStart
  \/ VoiceOnEnd
  \/ VoiceOnError
  \/ HandleRunAccepted("hi", MaxVoiceRuns)
  \/ PlanSettle(VoicePlans)

SpecVoice == Init /\ [][NextVoice]_vars

\* the planner outputs of the playback specification: a note, a meeting
\* start and a run with a collaborator call, each with spoken text, and a
\* meeting plan with no action and one with an action the handler does not know
PlaybackPlans ==
  {Plan("notes_add", None, "c1", None, None, None),
   Plan("meeting", None, None, "start", None, None),
   Plan("code", None, None, None, None, None),
   Plan("meeting", None, None, None, None, None),
   Plan("meeting", None, None, "pause", None, None)}

\* the playback specification: runs that write NoteStore, MeetingSession
\* and History, with the speech synthesis and playback that follow them
NextPlayback ==
  \/ HandleRunAccepted("hi", MaxPlaybackRuns)
  \/ PlanSettle(PlaybackPlans)
  \/ CallSettle
  \/ SpeechSettle
  \/ PlaybackEnded

SpecPlayback == Init /\ [][NextPlayback]_vars

\* the planner outputs of the avatar specification: one run with spoken
\* text and one without
AvatarPlans ==
  {Plan(a, None, None, None, None, None) : a \in {"unknown", "weather"}}

\* the avatar specification: runs, the speech synthesis and playback that
\* follow them, and the animation frames of the avatar
NextAvatar ==
  \/ HandleRunAccepted("hi", MaxAvatarRuns)
  \/ PlanSettle(AvatarPlans)
  \/ SpeechSettle
  \/ PlaybackEnded
  \/ Animate

SpecAvatar == Init /\ [][NextAvatar]_vars

\* the news player specification: the play/pause button of one NewsPlayer
\* and the 'ended' events of the sources it starts
NextNews ==
  \/ PlayAudio
  \/ NewsEnded

SpecNews == Init /\ [][NextNews]_vars

\* ------------------------------------------------------------------ claims

\* the item appended last
LastItem(h) == h[Len(h)]

\* the events a step adds to the trace of the run in flight
NewEvents(old, new) ==
  IF Len(new) > Len(old) /\ SubSeq(new, 1, Len(old)) = old
    THEN {new[k] : k \in (Len(old) + 1)..Len(new)}
    ELSE {}

C2_StopAlwaysResets ==
  [][\A i \in 1..Len(runs) :
       (runs[i].pc = "call" /\ runs[i].call.fn = "summarizeMeetingLog"
        /\ Len(runs') < Len(runs))
         => meeting' = InactiveMeeting]_vars

\* C3: the stop handler invokes the summarizer with the topic and the log
\* MeetingSession holds at that moment, entries the transcription stream
\* appended while the planner call was pending included.
C3_SummarizerGetsCurrentLog ==
  [][\A i \in 1..Len(runs) :
       (i <= Len(runs') /\ runs[i].pc = "plan" /\ runs'[i].pc = "call"
        /\ runs'[i].call.fn = "summarizeMeetingLog")
         => /\ runs'[i].call.a1 = meeting.topic
            /\ runs'[i].call.log = meeting.log]_vars

\* C4: in every reachable state listening implies active, under meeting
\* start/add/stop runs, listener toggles and recognition error callbacks.
C4_ListeningImpliesActive == meeting.listening => meeting.active

\* a meeting that listens again after an earlier meeting was stopped
C4_Witness ==
  /\ meeting.listening
  /\ meetingRec = "running"
  /\ \E i \in 1..Len(history) : history[i].plannerOutput.meetingAction = "stop"
                                 /\ history[i].status = "success"

\* C5: a pending planRequest call never rejects: on every failure of the
\* planner path it resolves to {agent: 'unknown', info: {}, reasoning}.
C5_PlanRequestNeverThrows ==
  \A i \in 1..Len(runs) :
    runs[i].pc = "plan" =>
      \A o \in BackendOutcomes(GeneralPlans) :
        /\ ~planRequest(apiKey, o).threw
        /\ o.kind # "json" => planRequest(apiKey, o).value = FallbackPlan

\* C6: the step in which planning fails (planRequest falls back to
\* 'unknown' or rejects) completes the run: it appends an item with
\* plannerOutput.agent 'unknown' and status 'error', clears loading, and
\* leaves NoteStore and MeetingSession as they were.
C6_PlanningFailure ==
  [][(NewEvents(trace, trace') \cap {"planFallback", "planRejected"} # {})
       => /\ Len(history') = Len(history) + 1
          /\ LastItem(history').plannerOutput.agent = "unknown"
          /\ LastItem(history').status = "error"
          /\ ~loading'
          /\ notes' = notes
          /\ meeting' = meeting]_vars

\* a run that ended on the planner's fallback while notes and a meeting exist
C6_Witness ==
  /\ Len(history) = 2
  /\ LastItem(history).plannerOutput = FallbackPlan
  /\ "planFallback" \in {trace[k] : k \in 1..Len(trace)}
  /\ history[1].status = "success"
  /\ (notes # <<>> \/ meeting.active)

\* C7: an agent value outside the closed set is treated like 'unknown': the
\* appended item has status 'error'.
C7_UnrecognizedAgentIsError ==
  \A i \in 1..Len(history) :
    history[i].plannerOutput.agent \notin AgentTypes => history[i].status = "error"

\* C8: a handleRun invocation whose query is blank, or that arrives while
\* loading, changes nothing: no item, no planner call, no handler, and
\* history, NoteStore, MeetingSession, loading and the phase stay as they are.
C8_IgnoredSubmission ==
  [][(lastCall' # lastCall /\ (~Truthy(Trim(lastCall'.query)) \/ loading))
       => UNCHANGED <<history, notes, meeting, loading, loadingPhase, runs, accepted,
                      currentPlannerData, synth, playing, currentAnalyser>>]_vars

\* a whitespace-only submission ignored while a run is in flight
C8_Witness ==
  /\ lastCall.ignored
  /\ lastCall.query = "  "
  /\ loading
  /\ Len(runs) = 1

\* C9: at most one run is in flight, and loading is true exactly while it is.
C9_OneRunInFlight ==
  /\ Len(runs) <= 1
  /\ loading <=> Len(runs) = 1

\* a non-blank submission ignored while the second run awaits its collaborator
C9_Witness ==
  /\ lastCall.ignored
  /\ lastCall.query = "hi"
  /\ Len(runs) = 1
  /\ runs[1].pc = "call"
  /\ Len(history) = 1

HandlerStep == accepted' = accepted /\ runs' # runs

\* C11: NoteStore and MeetingSession change only in a step of an intent
\* handler executing inside a run: a meeting-stream transcript, a recognition
\* error and the listener toggle change neither of them.
C11_OnlyHandlersMutate ==
  [][(notes' # notes \/ meeting' # meeting) => HandlerStep]_vars

\* the step in which a handler's collaborator call throws, caught inside the
\* run: one item is appended with status 'error', the errorMessage given and
\* the planner's output; loading is cleared and a submission is accepted again
ThrowCaught(errorMessage) ==
  /\ Len(history') = Len(history) + 1
  /\ LastItem(history').status = "error"
  /\ LastItem(history').errorMessage = errorMessage
  /\ \E i \in 1..Len(runs) :
       runs[i].pc = "call" /\ LastItem(history').plannerOutput = runs[i].plan
  /\ LastItem(history').plannerOutput.agent \in {"code", "papers", "news", "translate", "meeting"}
  /\ ~loading'
  /\ ~GuardRejects("hi", loading')
  /\ runs' = <<>>

\* C12 as stated: when a collaborator call inside a handler throws, the
\* appended item has status 'error' and errorMessage equal to the thrown
\* message, carries the planner's output, loading is cleared and later
\* submissions are accepted.
C12_ErrorMessageIsThrownMessage ==
  [][(thrown = None /\ thrown' # None) => ThrowCaught(thrown')]_vars

\* C12, amended: as above, with errorMessage equal to the thrown message
\* when that is not empty and to "Execution failed" when it is empty.
C12_CollaboratorThrowCaught ==
  [][(thrown = None /\ thrown' # None)
       => ThrowCaught(IF thrown' = "" THEN "Execution failed" ELSE thrown')]_vars

\* a paper search that threw 'Failed to fetch', and the next submission accepted
C12_Witness ==
  /\ Len(history) = 1
  /\ history[1].plannerOutput.agent = "papers"
  /\ history[1].status = "error"
  /\ history[1].errorMessage = "Failed to fetch"
  /\ accepted = 2
  /\ Len(runs) = 1

\* the session state when the handler of run r started: recorded by a run
\* suspended at its collaborator call, the current state for a run whose
\* handler has not started yet
BeforeHandler(r) ==
  IF r.pc = "call" THEN r.pre ELSE [notes |-> notes, meeting |-> meeting]

\* C13: a run whose handler ends with status 'error' (a collaborator threw,
\* or the handler found its inputs insufficient) leaves NoteStore and
\* MeetingSession equal to their values before the handler started.
C13_ErrorLeavesStateUntouched ==
  [][\A i \in 1..Len(runs) :
       (Len(runs') < Len(runs) /\ Len(history') = Len(history) + 1
        /\ LastItem(history').status = "error")
         => /\ notes' = BeforeHandler(runs[i]).notes
            /\ meeting' = BeforeHandler(runs[i]).meeting]_vars

\* list l ends with the elements of s, in the order of s
EndsWith(l, s) ==
  /\ Len(l) >= Len(s)
  /\ SubSeq(l, Len(l) - Len(s) + 1, Len(l)) = s

\* the step completes a notes_read run that immediately follows a successful
\* notes_add run with the same (case-folded) non-empty topic
ReadFollowsAdd ==
  /\ Len(history) >= 1
  /\ Len(history') = Len(history) + 1
  /\ LastItem(history).plannerOutput.agent = "notes_add"
  /\ LastItem(history).status = "success"
  /\ LastItem(history').plannerOutput.agent = "notes_read"
  /\ Truthy(LastItem(history).plannerOutput.topic)
  /\ Truthy(LastItem(history').plannerOutput.topic)
  /\ ToLowerCase(LastItem(history').plannerOutput.topic)
       = ToLowerCase(LastItem(history).plannerOutput.topic)

\* the read returns a list whose last element is the content just added,
\* with the notes stored under the topic right before the end of the list
ReadReturnsAdded ==
  LET read == LastItem(history').result
      added == LastItem(history).plannerOutput
  IN /\ read.tag = "list"
     /\ read.list # <<>>
     /\ read.list[Len(read.list)] = added.content
     /\ NotesGet(notes, ToLowerCase(added.topic)) # <<>>
     /\ EndsWith(read.list, NotesGet(notes, ToLowerCase(added.topic)))

\* C14 as stated: for every topic t and non-empty content c, a successful
\* notes_add(t, c) run immediately followed by a notes_read run with the same
\* topic returns a sequence whose last element is c, the topic's earlier
\* notes before it in append order.
C14_AddThenReadAnyTopic ==
  [][ReadFollowsAdd => ReadReturnsAdded]_vars

\* C14, amended: the same for every topic t other than 'all' (in any case);
\* the sequence returned is exactly the topic's notes.
C14_AddThenRead ==
  [][(ReadFollowsAdd /\ ToLowerCase(LastItem(history).plannerOutput.topic) # "all")
       => /\ ReadReturnsAdded
          /\ LastItem(history').result.list
               = NotesGet(notes, ToLowerCase(LastItem(history).plannerOutput.topic))]_vars

\* 'c2' added under 'work' after 'c1', then read back under 'Work'
C14_Witness ==
  /\ Len(history) = 3
  /\ history[2].plannerOutput.agent = "notes_add"
  /\ history[2].plannerOutput.content = "c2"
  /\ history[3].plannerOutput.agent = "notes_read"
  /\ history[3].plannerOutput.topic = "Work"
  /\ history[3].result.list = <<"c1", "c2">>

\* the step completes a run whose planner output names the agent a
CompletesRunOf(a) ==
  /\ Len(history') = Len(history) + 1
  /\ LastItem(history').plannerOutput.agent = a

\* C15: notes_clear with a non-empty topic removes exactly the lower-cased
\* topic's entry and leaves every other topic, its notes and the order of the
\* topics unchanged (an absent topic changes nothing); with an empty or
\* missing topic it leaves NoteStore empty; both end with status 'success'.
C15_NotesClear ==
  [][CompletesRunOf("notes_clear") =>
       LET t == LastItem(history').plannerOutput.topic
       IN /\ LastItem(history').status = "success"
          /\ Truthy(t) =>
               /\ \A k \in 1..Len(notes') : notes'[k].topic # ToLowerCase(t)
               /\ notes' = SelectSeq(notes, LAMBDA e : e.topic # ToLowerCase(t))
               /\ NoteIndex(notes, ToLowerCase(t)) = 0 => notes' = notes
          /\ ~Truthy(t) => notes' = <<>>]_vars

\* 'Work' cleared while the default topic, filled before it, keeps its note
C15_Witness ==
  /\ Len(history) = 3
  /\ history[2].plannerOutput.agent = "notes_add"
  /\ history[2].plannerOutput.topic = "Work"
  /\ history[2].status = "success"
  /\ history[3].plannerOutput.agent = "notes_clear"
  /\ history[3].plannerOutput.topic = "Work"
  /\ notes = <<[topic |-> "general", items |-> <<"Buy milk">>]>>

\* the topics of a NoteStore in mapping order
Topics(n) == [k \in 1..Len(n) |-> n[k].topic]

\* the step ends the handler of a run whose planner output names the agent a
\* (the handler has no collaborator call, so the run ends with it)
SettlesRunOf(a) ==
  /\ Len(runs') < Len(runs)
  /\ "handler" \in NewEvents(trace, trace')
  /\ lastPlan'.agent = a

\* C16: notes_add with non-empty content c appends c as the last element of
\* the sequence stored under the lower-cased topic ('general' when the
\* planner gives none), creating the entry (as the last key) if absent,
\* leaves every other topic unchanged and ends with status 'success' and
\* result 'Added note to "<topic>".'; from an empty store, content 'Buy milk'
\* and no topic give {general: ['Buy milk']}.
C16_NotesAdd ==
  [][(SettlesRunOf("notes_add") /\ Truthy(lastPlan'.content)) =>
       LET p == lastPlan'
           t == ToLowerCase(IF Truthy(p.topic) THEN p.topic ELSE "general")
       IN /\ Len(history') = Len(history) + 1
          /\ LastItem(history').plannerOutput = p
          /\ LastItem(history').status = "success"
          /\ LastItem(history').result = Str("Added note to", t)
          /\ NoteIndex(notes', t) # 0
          /\ notes'[NoteIndex(notes', t)].items = Append(NotesGet(notes, t), p.content)
          /\ \A k \in 1..Len(notes) :
               notes[k].topic # t => notes'[k] = notes[k]
          /\ Topics(notes') = (IF NoteIndex(notes, t) = 0
                                 THEN Append(Topics(notes), t) ELSE Topics(notes))
          /\ (notes = <<>> /\ p.content = "Buy milk" /\ ~Truthy(p.topic))
               => notes' = <<[topic |-> "general", items |-> <<"Buy milk">>]>>]_vars

\* C17: notes_add with missing or empty content ends with status 'error', an
\* explanatory message as result, and NoteStore unchanged.
C17_NotesAddWithoutContent ==
  [][(CompletesRunOf("notes_add") /\ ~Truthy(LastItem(history').plannerOutput.content)) =>
       /\ LastItem(history').status = "error"
       /\ LastItem(history').result = Str("No content provided for the note.", "")
       /\ notes' = notes]_vars

\* an add with empty content refused while the store holds a note
C17_Witness ==
  /\ Len(history) = 2
  /\ history[2].plannerOutput.agent = "notes_add"
  /\ history[2].plannerOutput.content = ""
  /\ history[2].status = "error"
  /\ notes = <<[topic |-> "work", items |-> <<"c1">>]>>

\* C18: notes_read with topic 'all' or no topic returns the concatenation of
\* every topic's note sequence in NoteStore's mapping order (the empty
\* sequence when the store is empty); with any other topic it returns that
\* topic's sequence, or the empty sequence if the topic is absent; the status
\* is always 'success'.
C18_NotesRead ==
  [][CompletesRunOf("notes_read") =>
       LET p == LastItem(history').plannerOutput
           t == ToLowerCase(IF Truthy(p.topic) THEN p.topic ELSE "")
           read == LastItem(history').result
       IN /\ LastItem(history').status = "success"
          /\ read.tag = "list"
          /\ read.list = (IF t = "all" \/ t = ""
                            THEN Flat(notes)
                            ELSE IF NoteIndex(notes, t) = 0 THEN <<>>
                                   ELSE notes[NoteIndex(notes, t)].items)]_vars

\* a HistoryItem of a notes_read run that asked for every topic
IsReadAll(item) ==
  /\ item.plannerOutput.agent = "notes_read"
  /\ \/ ~Truthy(item.plannerOutput.topic)
     \/ ToLowerCase(item.plannerOutput.topic) = "all"

\* a HistoryItem of a run that made no change to NoteStore: a read, or a
\* run that ended with status 'error'
LeavesNotes(item) ==
  item.plannerOutput.agent = "notes_read" \/ item.status = "error"

\* C19: notes_read never changes NoteStore, and a notes_read('all') run
\* returns the result of every earlier notes_read('all') run since which
\* NoteStore was not mutated.
C19_NotesReadIdempotent ==
  [][CompletesRunOf("notes_read") =>
       /\ notes' = notes
       /\ IsReadAll(LastItem(history')) =>
            \A j \in 1..Len(history) :
              (/\ IsReadAll(history[j])
               /\ \A k \in (j + 1)..Len(history) : LeavesNotes(history[k]))
                => history[j].result = LastItem(history').result]_vars

\* two reads of every topic ('all' left out, then 'ALL') around a refused
\* add, both returning the one note stored
C19_Witness ==
  /\ Len(history) = 4
  /\ history[1].plannerOutput.agent = "notes_add"
  /\ history[2].plannerOutput.agent = "notes_read"
  /\ ~Truthy(history[2].plannerOutput.topic)
  /\ history[3].status = "error"
  /\ history[4].plannerOutput.agent = "notes_read"
  /\ history[4].plannerOutput.topic = "ALL"
  /\ history[4].result = List(<<"Buy milk">>)
  /\ notes = <<[topic |-> "general", items |-> <<"Buy milk">>]>>

\* the step completes a meeting run whose planner output asks for 'start'
CompletesMeetingStart ==
  /\ CompletesRunOf("meeting")
  /\ LastItem(history').plannerOutput.meetingAction = "start"

\* the session a 'start' sets for planner output p, with listening l
StartedSession(p, l) ==
  [active |-> TRUE,
   topic |-> IF Truthy(p.topic) THEN p.topic ELSE "General Meeting",
   log |-> <<>>,
   listening |-> l]

CompletesMeetingAdd ==
  /\ CompletesRunOf("meeting")
  /\ LastItem(history').plannerOutput.meetingAction = "add"

\* C21: meeting 'add' when no session is active ends with status 'success'
\* and an active session with topic 'Ad-hoc Discussion' whose log has exactly
\* one entry: the planner's content, or the raw query when content is missing.
C21_AddStartsAdHocSession ==
  [][(CompletesMeetingAdd /\ ~meeting.active) =>
       LET item == LastItem(history')
       IN /\ item.status = "success"
          /\ meeting'.active
          /\ meeting'.topic = "Ad-hoc Discussion"
          /\ meeting'.log = <<IF Truthy(item.plannerOutput.content)
                                THEN item.plannerOutput.content ELSE item.userQuery>>]_vars

\* an ad-hoc session created from the raw query, after an earlier session
\* was stopped
C21_Witness ==
  /\ Len(history) = 3
  /\ history[2].plannerOutput.meetingAction = "stop"
  /\ history[2].status = "success"
  /\ history[3].plannerOutput.meetingAction = "add"
  /\ ~Truthy(history[3].plannerOutput.content)
  /\ meeting = [active |-> TRUE, topic |-> "Ad-hoc Discussion", log |-> <<"hi">>,
                listening |-> FALSE]

\* C22: meeting 'add' on an active session: with content present it appends
\* the content as the last log entry, leaving earlier entries, topic, active
\* and listening unchanged, status 'success'; with content absent it ends
\* with status 'error' and leaves MeetingSession unchanged.
C22_AddOnActiveSession ==
  [][(CompletesMeetingAdd /\ meeting.active) =>
       LET item == LastItem(history')
       IN IF Truthy(item.plannerOutput.content)
            THEN /\ item.status = "success"
                 /\ meeting' = [meeting EXCEPT !.log = Append(meeting.log,
                                                              item.plannerOutput.content)]
            ELSE /\ item.status = "error"
                 /\ meeting' = meeting]_vars

\* the handler of a meeting 'stop' run starts in this step
StartsMeetingStop ==
  /\ "handler" \in NewEvents(trace, trace')
  /\ lastPlan'.agent = "meeting"
  /\ lastPlan'.meetingAction = "stop"

\* C23: meeting 'stop' when no session is active ends with status 'error',
\* does not invoke the summarization collaborator, and leaves MeetingSession
\* unchanged (still inactive).
C23_StopWithoutSession ==
  [][(StartsMeetingStop /\ ~meeting.active) =>
       /\ Len(runs') < Len(runs)
       /\ \A i \in 1..Len(runs') : runs'[i].pc # "call"
       /\ "call" \notin NewEvents(trace, trace')
       /\ Len(history') = Len(history) + 1
       /\ LastItem(history').status = "error"
       /\ LastItem(history').plannerOutput = lastPlan'
       /\ meeting' = meeting
       /\ ~meeting'.active]_vars

\* a stop refused after an earlier session was stopped and summarized
C23_Witness ==
  /\ Len(history) = 3
  /\ history[2].plannerOutput.meetingAction = "stop"
  /\ history[2].status = "success"
  /\ history[3].plannerOutput.meetingAction = "stop"
  /\ history[3].status = "error"
  /\ history[3].result = Str("No active meeting to stop.", "")
  /\ meeting = InactiveMeeting

\* the phase changes of the cycle: run start, planner returned, audio starts
\* playing, playback ends, nothing to play
PhaseCycle ==
  {<<"idle", "planning">>, <<"planning", "executing">>,
   <<"executing", "speaking">>, <<"speaking", "idle">>, <<"executing", "idle">>}

\* a step in which handleRun resumed with the planner's result, set the
\* phase to executing and ran to its end
RunsHandlerToEnd ==
  /\ "handler" \in NewEvents(trace, trace')
  /\ "append" \in NewEvents(trace, trace')

\* C24: under every interleaving of runs and audio callbacks the phase
\* changes only along the cycle idle -> planning -> executing -> speaking ->
\* idle or from executing to idle; a run whose handler awaits nothing passes
\* through executing and reaches idle within one step.
C24_PhaseCycle ==
  [][loadingPhase' # loadingPhase =>
       \/ <<loadingPhase, loadingPhase'>> \in PhaseCycle
       \/ /\ RunsHandlerToEnd
          /\ <<loadingPhase, "executing">> \in PhaseCycle
          /\ <<"executing", loadingPhase'>> \in PhaseCycle]_vars

\* the voice-input instances that hold the microphone
LiveVoice == {k \in 1..Len(voiceRec) : voiceRec[k] \in VoiceLive}

\* C25: each recognition stream is a singleton: never two voice-input
\* instances running at once (a start requested before the first instance
\* reported 'started' included), and a start of the voice-input stream
\* leaves no earlier instance running; the meeting stream has the one
\* instance meetingRecognitionRef holds.
C25_SingletonStreams ==
  [][/\ Cardinality(LiveVoice) <= 1
     /\ Len(voiceRec') > Len(voiceRec) =>
          \A k \in 1..Len(voiceRec) : voiceRec'[k] \notin VoiceLive]_vars

\* C26: no started recognition instance runs without a reference through
\* which it can be stopped, none runs once App is unmounted, and the meeting
\* instance does not run while listening is false.
C26_StoppedStreamsReleased ==
  /\ \A k \in LiveVoice : inputRecognitionRef = k
  /\ ~mounted => LiveVoice = {} /\ meetingRec # "running"
  /\ ~meeting.listening => meetingRec # "running"

\* C27: on the meeting stream a 'no-speech' error leaves MeetingSession, the
\* stream and the alerts unchanged; a 'not-allowed' or 'service-not-allowed'
\* error sets listening to false, raises one alert and leaves active, topic
\* and log unchanged.
C27_MeetingStreamErrors ==
  [][\A err \in RecognitionErrors :
       OnErrorOf(err) =>
         /\ err = "no-speech" =>
              /\ meeting' = meeting
              /\ meetingRec' = meetingRec
              /\ draining' = draining
              /\ alerts' = alerts
         /\ err \in {"not-allowed", "service-not-allowed"} =>
              /\ ~meeting'.listening
              /\ alerts' = alerts + 1
              /\ meeting'.active = meeting.active
              /\ meeting'.topic = meeting.topic
              /\ meeting'.log = meeting.log]_vars

\* C27 witness: in a browser with recognition, a session that was listening
\* and had transcribed speech was told of a denial: one alert, listening off,
\* the session and its log kept
C27_Witness ==
  /\ srSupported
  /\ alerts = 1
  /\ meeting.active
  /\ ~meeting.listening
  /\ Len(meeting.log) = 2
  /\ meetingRec = "none"

\* C28: history is append-only: a step leaves it unchanged or appends one
\* item at its end, whatever the step (a later run, a speech or audio
\* callback), and the items stand in the order their runs were accepted.
C28_HistoryAppendOnly ==
  [][/\ \/ history' = history
        \/ /\ Len(history') = Len(history) + 1
           /\ SubSeq(history', 1, Len(history)) = history
     /\ \A j, k \in 1..Len(history') : j < k => history'[j].id < history'[k].id]_vars

\* C28 witness: two runs left their items in the order of acceptance, and
\* the speech of both was synthesized and played to its end
C28_Witness ==
  /\ Len(history) = 2
  /\ history[1].id = 1
  /\ history[2].id = 2
  /\ history[1].status = "success"
  /\ history[2].status = "error"
  /\ "speech" \in {trace[k] : k \in 1..Len(trace)}
  /\ synth = {}
  /\ playing = {}
  /\ currentAnalyser = 0
  /\ loadingPhase = "idle"

\* C29: when every collaborator call settles and every started playback
\* ends, a run in flight or a phase other than idle leads to a state where
\* loading is false and the phase is idle (a behaviour accepts finitely many
\* runs): no run leaves the phase in planning, executing or speaking for ever.
C29_RunsComeToRest ==
  (loading \/ loadingPhase # "idle") ~> (~loading /\ loadingPhase = "idle")

\* C29 witness: a run whose collaborator threw has spoken its error text
\* and come to rest
C29_Witness ==
  /\ accepted = 1
  /\ Len(history) = 1
  /\ history[1].status = "error"
  /\ thrown # None
  /\ "speech" \in {trace[k] : k \in 1..Len(trace)}
  /\ runs = <<>>
  /\ synth = {}
  /\ playing = {}
  /\ ~loading
  /\ loadingPhase = "idle"

\* C30: the step that appends the item of a run with no spoken text (no
\* handler ran: the agent is outside the switch) requests no speech
\* synthesis and sets the phase to idle; a speech synthesis that settles
\* without a playback starting (no audio, or playGlobalAudio failed) sets the
\* phase to idle.
C30_NothingToPlay ==
  [][/\ (/\ Len(history') = Len(history) + 1
         /\ LastItem(history').plannerOutput.agent \notin AgentTypes)
          => synth' = synth /\ loadingPhase' = "idle"
     /\ (synth' # synth /\ history' = history /\ playing' = playing)
          => loadingPhase' = "idle"]_vars

\* C30 witness: a run with no spoken text and then a run with spoken text
\* have both come to rest with nothing pending and nothing playing
C30_Witness ==
  /\ accepted = 2
  /\ Len(history) = 2
  /\ history[1].plannerOutput.agent \notin AgentTypes
  /\ history[2].plannerOutput.agent = "code"
  /\ history[2].status = "success"
  /\ "speech" \in {trace[k] : k \in 1..Len(trace)}
  /\ synth = {}
  /\ playing = {}
  /\ ~loading
  /\ loadingPhase = "idle"

\* C31: a speech synthesis that settles without a playback starting (no
\* audio, or playGlobalAudio failed) leaves History, and so the status,
\* result and errorMessage of the run's item, NoteStore and MeetingSession
\* unchanged.
C31_SpeechFailureFrame ==
  [][(synth' \subseteq synth /\ synth' # synth /\ playing' = playing) =>
       /\ history' = history
       /\ notes' = notes
       /\ meeting' = meeting]_vars

\* C31 witness: a note and a meeting were recorded by two successful runs
\* and the speech of both has settled with nothing playing
C31_Witness ==
  /\ Len(history) = 2
  /\ history[1].status = "success"
  /\ history[2].status = "success"
  /\ notes # <<>>
  /\ meeting.active
  /\ synth = {}
  /\ playing = {}
  /\ currentAnalyser = 0
  /\ loadingPhase = "idle"

C33_PhaseOfRunInFlight ==
  loading => loadingPhase \in {"planning", "executing"}

\* C34: at most one global audio source plays at a time, and while a source
\* plays the phase is 'speaking' and currentAnalyser is its analyser.
C34_OnePlayback ==
  /\ Cardinality(playing) <= 1
  /\ \A id \in playing : loadingPhase = "speaking" /\ currentAnalyser = id

\* the NewsPlayer sources that are playing
PlayingSources == {k \in 1..Len(newsSources) : newsSources[k] = "playing"}

\* C35: in NewsPlayer, whatever the play/pause clicks and the delayed
\* 'ended' callbacks, isPlaying is true exactly when a source of the player
\* is playing, and at most one source of the player plays at a time.
C35_NewsPlayerState ==
  /\ isPlaying <=> PlayingSources # {}
  /\ Cardinality(PlayingSources) <= 1

\* C36: whenever MeetingSession.active and MeetingSession.listening are both
\* true (the listener effect having run), a meeting recognition instance is
\* running, also after the instance ended on its own or failed with an error
\* other than 'no-speech', 'not-allowed' and 'service-not-allowed'.
C36_ListeningHasInstance ==
  (meeting.active /\ meeting.listening) => meetingRec = "running"

\* C37: an inactive MeetingSession has an empty log and an empty topic: no
\* transcript of the meeting stream is added to an inactive session, and the
\* reset of a stop discards no transcript delivered while the stop was
\* awaiting its summary.
C37_InactiveSessionIsEmpty ==
  [][/\ ~meeting'.active => meeting'.log = <<>> /\ meeting'.topic = ""
     /\ (meeting.active /\ ~meeting'.active) =>
          \A i \in 1..Len(runs) :
            runs[i].pc = "call" => meeting.log = runs[i].pre.meeting.log]_vars

\* C38: a run whose plan names the meeting agent with no meetingAction, or
\* with one that is none of start, add and stop, ends with status 'error'
\* and result 'Unknown meeting action.', leaves MeetingSession unchanged,
\* requests no speech synthesis and sets the phase to idle.
C38_UnknownMeetingAction ==
  [][(/\ CompletesRunOf("meeting")
      /\ LastItem(history').plannerOutput.meetingAction \notin {"start", "add", "stop"})
       => /\ LastItem(history').status = "error"
          /\ LastItem(history').result = Str("Unknown meeting action.", "")
          /\ meeting' = meeting
          /\ synth' = synth
          /\ loadingPhase' = "idle"
          /\ ~loading']_vars

\* C38 witness: on a session started by the first run, a meeting plan with
\* no action, or with the action 'pause', ended in error, with the session
\* kept, no speech requested for it and the phase idle
C38_Witness ==
  /\ Len(history) = 2
  /\ history[1].plannerOutput.meetingAction = "start"
  /\ history[2].plannerOutput.agent = "meeting"
  /\ history[2].plannerOutput.meetingAction \in {None, "pause"}
  /\ history[2].status = "error"
  /\ history[2].result = Str("Unknown meeting action.", "")
  /\ meeting.active
  /\ meeting.topic = "General Meeting"
  /\ 2 \notin synth
  /\ loadingPhase = "idle"

====
